---- MODULE Spec2Model ----
(***************************************************************************)
(* Endercom Node.js SDK: the Agent class (poll loop, dispatch core,        *)
(* response routing) as a state machine over the Node.js event loop.       *)
(* One step is one run-to-completion turn: an API call of the embedding    *)
(* application, a timer callback, or the continuation that runs when a     *)
(* pending fetch or handler promise settles.                               *)
(***************************************************************************)
EXTENDS Bags, FiniteSets, Integers, Sequences, TLC

(* ------------------------------------------------------------------ *)
(* Bounds                                                             *)
(* ------------------------------------------------------------------ *)

\* successful run() calls per process (each registers one SIGINT listener)
MaxRuns == 2
\* messages in one poll response of the lifecycle specification
MaxBatch == 2
\* messages in one poll response of the dispatch specification
MaxDispatchBatch == 1

(* ------------------------------------------------------------------ *)
(* JavaScript values                                                  *)
(* ------------------------------------------------------------------ *)

\* A string is the sequence of its pieces (characters, or words that are never
\* taken apart); "" is <<>>.
Str(piece) == <<piece>>

\* the value of a property that is not there
Absent == <<"undefined">>

\* truthiness of a string-or-undefined value
Truthy(v) == v # Absent /\ v # <<>>

\* a || b
OrElse(a, b) == IF Truthy(a) THEN a ELSE b

\* `${a}${b}`
Concat(a, b) == a \o b

(* ------------------------------------------------------------------ *)
(* Messages                                                           *)
(* ------------------------------------------------------------------ *)

EmptyMetadata == [response_url |-> Absent, request_id |-> Absent]

\* metadata objects a platform message can carry
Metadatas == [response_url : {Absent, <<>>, Str("https://cb/1")},
              request_id : {Absent, <<>>, Str("meta-req")}]

\* raw poll entries: metadata is <<>> when the entry has none, else <<object>>
RawMessages(metas) ==
    [id : {Str("id1")}, content : {Str("hi")}, request_id : {Str("req1")},
     created_at : {Str("t0")}, agent_id : {Absent},
     metadata : {<<>>} \cup {<<m>> : m \in metas}]

DispatchMessages == RawMessages(Metadatas)

\* the lifecycle specification polls ordinary queue messages only
LifecycleMessages == {r \in RawMessages({}) : r.metadata = <<>>}

\* two queue messages that can be told apart
BatchMessages ==
    [id : {Str("id1"), Str("id2")}, content : {Str("hi")}, request_id : {Str("req1")},
     created_at : {Str("t0")}, agent_id : {Absent}, metadata : {<<>>}]

\* msg.metadata || {}
MetadataOrEmpty(rawMeta) == IF rawMeta = <<>> THEN EmptyMetadata ELSE rawMeta[1]

\* the .map callback of pollMessages
ToMessage(raw) ==
    [id |-> raw.id, content |-> raw.content, request_id |-> raw.request_id,
     created_at |-> raw.created_at, agent_id |-> raw.agent_id,
     metadata |-> MetadataOrEmpty(raw.metadata)]

\* a map that hands the batch over last entry first
MapMessages_Reversed(raws) == [i \in 1..Len(raws) |-> ToMessage(raws[Len(raws) + 1 - i])]

MapMessages(raws) == [i \in 1..Len(raws) |-> ToMessage(raws[i])]

Batches(M, n) == UNION {[1..k -> M] : k \in 0..n}

NoMessage ==
    [id |-> <<>>, content |-> <<>>, request_id |-> <<>>, created_at |-> <<>>,
     agent_id |-> Absent, metadata |-> EmptyMetadata]

(* ------------------------------------------------------------------ *)
(* Agent configuration (AgentOptions)                                 *)
(* ------------------------------------------------------------------ *)

frequencyApiKey == Str("k")
agentId == Str("agent-1")
\* `${this.freqBase}/messages/respond`
RespondEndpoint == Str("freqBase/messages/respond")

(* ------------------------------------------------------------------ *)
(* Handlers                                                           *)
(* ------------------------------------------------------------------ *)

\* this.messageHandler when none was set
NoHandler == "unset"
DefaultHandler == "defaultMessageHandler"
\* the functions the application may register
Handlers == {"h1", "h2"}
\* the one the lifecycle specification registers
LifecycleHandlers == {"h1"}

\* this.messageHandler || this.defaultMessageHandler
ActiveHandler(mh) == IF mh # NoHandler THEN mh ELSE DefaultHandler

\* a default handler that returns the content as it came
defaultMessageHandler_Plain(message) == message.content

defaultMessageHandler(message) == Concat(Str("Echo: "), message.content)

\* the string handler h produces for a message when it succeeds
HandlerReturn(h, message) ==
    IF h = DefaultHandler THEN defaultMessageHandler(message)
    ELSE Concat(<<"reply of", h, "to">>, message.content)

\* what a call handler(message) can do before control returns to handleMessage:
\* return a string, throw, or return a pending promise
SyncOutcomes(h) ==
    IF h = DefaultHandler THEN {"return"} ELSE {"return", "throw", "async"}

(* ------------------------------------------------------------------ *)
(* Outbound requests of the dispatch core                             *)
(* ------------------------------------------------------------------ *)


\* a respondViaHttp that sends the headers of the platform calls
respondViaHttp_WithAuth(responseUrl, requestId, content) ==
    [method |-> "POST", url |-> responseUrl,
     authorization |-> Concat(<<"Bearer", " ">>, frequencyApiKey),
     xAgentId |-> agentId,
     body |-> [request_id |-> requestId, content |-> content]]

\* respondViaHttp: the fetch it issues
respondViaHttp(responseUrl, requestId, content) ==
    [method |-> "POST", url |-> responseUrl,
     authorization |-> Absent, xAgentId |-> Absent,
     body |-> [request_id |-> requestId, content |-> content]]

\* respondToMessage: the fetch it issues
respondToMessage(requestId, content) ==
    [method |-> "POST", url |-> RespondEndpoint,
     authorization |-> Concat(<<"Bearer", " ">>, frequencyApiKey),
     xAgentId |-> agentId,
     body |-> [request_id |-> requestId, content |-> content]]

\* handleMessage with the routing decision left out
Delivery_QueueOnly(message, responseContent) ==
    respondToMessage(message.request_id, responseContent)

\* handleMessage passing message.request_id to respondViaHttp
Delivery_NoOverride(message, responseContent) ==
    IF Truthy(message.metadata.response_url)
    THEN respondViaHttp(message.metadata.response_url, message.request_id,
                        responseContent)
    ELSE respondToMessage(message.request_id, responseContent)

\* the routing decision of handleMessage
Delivery(message, responseContent) ==
    IF Truthy(message.metadata.response_url)
    THEN respondViaHttp(message.metadata.response_url,
                        OrElse(message.metadata.request_id, message.request_id),
                        responseContent)
    ELSE respondToMessage(message.request_id, responseContent)

\* handleMessage answering from its catch block as well
Deliveries_AlsoOnFailure(message, h, handlerOutcome) ==
    <<Delivery(message, HandlerReturn(h, message))>>

\* the fetch calls one handleMessage makes, given how the handler ended
\* ("return" and "resolve" yield the response string, "throw" and "reject" jump
\* to the catch block)
Deliveries(message, h, handlerOutcome) ==
    IF handlerOutcome \in {"return", "resolve"}
    THEN <<Delivery(message, HandlerReturn(h, message))>>
    ELSE <<>>

\* outcomes of an awaited fetch
FetchOutcomes == {"2xx", "non2xx", "neterr"}

\* how respondViaHttp / respondToMessage settle for a fetch outcome: both wrap
\* the fetch in try/catch and only log
RespondSettled(fetchOutcome) == "resolved"

\* handleMessage without its try/catch
HandleMessageSettled_NoCatch(tryOutcome) == tryOutcome

\* how handleMessage settles given how its try block ended
HandleMessageSettled(tryOutcome) == "resolved"

\* the record of one finished call of handleMessage: the message, the handler
\* called and how it ended, the fetch calls made and how the awaited one ended
\* ("none" when there was none), and how the call settled
Dispatched(message, h, handlerOutcome, posts, fetchOutcome, tryOutcome) ==
    [msg |-> message, h |-> h, handler |-> handlerOutcome, posts |-> posts,
     fetch |-> fetchOutcome, result |-> HandleMessageSettled(tryOutcome)]

(* ------------------------------------------------------------------ *)
(* State                                                              *)
(* ------------------------------------------------------------------ *)

VARIABLES
    running,          \* this.running
    pollInterval,     \* this.pollInterval: the handle of the last timer armed
    messageHandler,   \* this.messageHandler
    sigintHandlers,   \* listeners registered with process.on('SIGINT')
    timers,           \* handles of the timeouts pending in the event loop
    cycles,           \* bag of poll cycles in flight (calls of pollMessages)
    expressAvailable, \* whether require('express') succeeded at load time
    app,              \* this.app: <<>> or <<the ServerOptions it was built with>>
    startupTime,      \* this.startupTime: <<>> or <<Date.now() at creation>>
    listening,        \* whether app.listen was called
    now,              \* Date.now()
    a2aPending,       \* bag of POST /a2a requests awaiting their handler
    clientAuth,       \* the Authorization header the HTTP client presents
    outbound,         \* bag of sendMessage / talkToAgent calls awaiting their fetch
    exited,           \* whether process.exit was called
    ev                \* what the last turn did (observation only)

pollVars == <<running, pollInterval, sigintHandlers, timers, cycles>>
serverVars == <<expressAvailable, app, startupTime, listening, now, a2aPending, clientAuth>>
clientVars == <<outbound, exited>>
vars == <<pollVars, messageHandler, serverVars, clientVars, ev>>

NoTimer == 0

\* a poll cycle waiting for the response of its GET
AwaitingGet ==
    [pc |-> "get", msg |-> NoMessage, rest |-> <<>>, h |-> NoHandler,
     how |-> "none", posts |-> <<>>]

\* a poll cycle inside handleMessage(msg): awaiting the handler's promise
\* (pc = "handler") or the delivery fetch (pc = "post"); rest are the messages
\* of the batch still to dispatch, how says how the handler ended
InDispatch(pc, message, rest, h, how, posts) ==
    [pc |-> pc, msg |-> message, rest |-> rest, h |-> h, how |-> how, posts |-> posts]

\* op: the turn; noop: an API call that returned early; get: a poll GET was
\* issued; done: the calls of handleMessage that finished; req, res: the inbound
\* request worked on and the response sent (<<>> or <<value>>); ran: the route
\* body ran; calls: the handler calls made for req; how: how each of them has
\* ended so far; posts: the fetch calls made for req; out: the call of
\* sendMessage / talkToAgent that was made or that settled (<<>> or <<value>>);
\* polled: what the poll GET that settled came back with (<<>> or <<value>>)
NoEv ==
    [op |-> "none", noop |-> FALSE, get |-> FALSE, done |-> <<>>,
     req |-> <<>>, res |-> <<>>, ran |-> FALSE, calls |-> <<>>, how |-> <<>>,
     posts |-> <<>>, out |-> <<>>, polled |-> <<>>]

\* `Bearer ${key}`
Bearer(key) == Concat(<<"Bearer", " ">>, key)

\* the agent after construction, before any call, with the module loaded with
\* or without Express and a client holding the header auth
InitWith(express, auth) ==
    /\ running = FALSE
    /\ pollInterval = NoTimer
    /\ messageHandler = NoHandler
    /\ sigintHandlers = 0
    /\ timers = {}
    /\ cycles = EmptyBag
    /\ expressAvailable = express
    /\ app = <<>>
    /\ startupTime = <<>>
    /\ listening = FALSE
    /\ now = 1
    /\ a2aPending = EmptyBag
    /\ clientAuth = auth
    /\ outbound = EmptyBag
    /\ exited = FALSE
    /\ ev = NoEv

Init == InitWith(TRUE, Bearer(frequencyApiKey))

(* ------------------------------------------------------------------ *)
(* The for loop of pollMessages, run until it suspends or ends        *)
(* ------------------------------------------------------------------ *)

\* Dispatch the messages of queue in order, starting with a call of
\* handleMessage(Head(queue)); outs[i] is what the i-th handler call does.
\* The result is the cycle's state at its next suspension (<<>> when the loop
\* ended) and the dispatches that finished on the way.
RECURSIVE DispatchFrom(_, _, _, _)
DispatchFrom(queue, outs, mh, done) ==
    IF queue = <<>> THEN [cycle |-> <<>>, done |-> done]
    ELSE LET message == Head(queue)
             h == ActiveHandler(mh)
             o == Head(outs)
             posts == Deliveries(message, h, o)
         IN  IF o = "async"
             THEN [cycle |-> <<InDispatch("handler", message, Tail(queue), h, "none", <<>>)>>,
                   done |-> done]
             ELSE IF posts # <<>>
             THEN [cycle |-> <<InDispatch("post", message, Tail(queue), h, o, posts)>>,
                   done |-> done]
             ELSE LET d == Dispatched(message, h, o, posts, "none",
                                      IF o = "return" THEN "resolved" ELSE "rejected")
                  IN  IF d.result = "resolved"
                      THEN DispatchFrom(Tail(queue), Tail(outs), mh, Append(done, d))
                      \* await this.handleMessage(...) throws into the catch of
                      \* pollMessages: the loop is left
                      ELSE [cycle |-> <<>>, done |-> Append(done, d)]

\* the handler outcomes for the calls a turn can make: the loop suspends at the
\* first call that does not throw, so the outcomes after it are never drawn
HandlerChoices(queue, mh) ==
    {outs \in [1..Len(queue) -> SyncOutcomes(ActiveHandler(mh))] :
        \A i, j \in 1..Len(queue) : (i < j /\ outs[i] # "throw") => outs[j] = "return"}

\* a loop that gives up its batch when a delivery fails
AfterDispatch_AbortOnFailure(d, rest, outs, mh) ==
    IF d.result = "resolved" /\ d.fetch \notin {"non2xx", "neterr"}
    THEN DispatchFrom(rest, outs, mh, <<d>>)
    ELSE [cycle |-> <<>>, done |-> <<d>>]

\* a loop that keeps calling the handler its previous dispatch called
AfterDispatch_SameHandler(d, rest, outs, mh) ==
    IF d.result = "resolved"
    THEN DispatchFrom(rest, outs, d.h, <<d>>)
    ELSE [cycle |-> <<>>, done |-> <<d>>]

\* the loop after handleMessage settled as d with the messages rest to go
AfterDispatch(d, rest, outs, mh) ==
    IF d.result = "resolved"
    THEN DispatchFrom(rest, outs, mh, <<d>>)
    ELSE [cycle |-> <<>>, done |-> <<d>>]

(* ------------------------------------------------------------------ *)
(* Poll responses                                                     *)
(* ------------------------------------------------------------------ *)

\* what the GET of pollMessages can come back with: a network failure, a
\* non-2xx status, or a 2xx status with a JSON body {success, data?: {messages?}}
\* (data and messages are <<>> when not there, else <<value>>); a body whose
\* success is not true comes without data or with a batch of at most one
PollResponses(M, n) ==
    {[net |-> "error", ok |-> FALSE, success |-> FALSE, data |-> <<>>],
     [net |-> "ok", ok |-> FALSE, success |-> FALSE, data |-> <<>>]}
    \cup [net : {"ok"}, ok : {TRUE}, success : {FALSE},
          data : {<<>>} \cup {<<[messages |-> <<b>>]>> : b \in Batches(M, 1)}]
    \cup [net : {"ok"}, ok : {TRUE}, success : {TRUE},
          data : {<<>>, <<[messages |-> <<>>]>>}
                 \cup {<<[messages |-> <<b>>]>> : b \in Batches(M, n)}]

\* a pollMessages that takes data.messages whatever success says
PolledMessages_IgnoreSuccess(resp) ==
    IF resp.net = "error" THEN <<>>
    ELSE IF ~resp.ok THEN <<>>
    ELSE IF resp.data # <<>> /\ resp.data[1].messages # <<>>
         THEN MapMessages(resp.data[1].messages[1])
         ELSE <<>>

\* the messages pollMessages goes on to dispatch for a response
PolledMessages(resp) ==
    IF resp.net = "error" THEN <<>>
    ELSE IF ~resp.ok THEN <<>>
    ELSE IF resp.success /\ resp.data # <<>> /\ resp.data[1].messages # <<>>
         THEN MapMessages(resp.data[1].messages[1])
         ELSE <<>>

(* ------------------------------------------------------------------ *)
(* Timers and the poll closure of run()                               *)
(* ------------------------------------------------------------------ *)

TimerHandles == 1..(MaxRuns + 1)

\* setTimeout returns a handle no pending timer and no field refers to
FreshTimer ==
    CHOOSE t \in TimerHandles :
        /\ t \notin timers \cup {pollInterval}
        /\ \A u \in TimerHandles : u \notin timers \cup {pollInterval} => t <= u

\* a poll closure that never polls
PollGuard_Never == FALSE

\* a poll closure that does not look at this.running
PollGuard_Always == TRUE

\* if (this.running) at the head of the poll closure
PollGuard == running

\* run() without its early return
AlreadyRunning_Never == FALSE

\* if (this.running) at the head of run()
AlreadyRunning == running

\* stop() without its early return
NotRunning_Never == FALSE

\* if (!this.running) at the head of stop()
NotRunning == ~running

\* poll cycles in flight plus timers pending
ActiveLoops == BagCardinality(cycles) + Cardinality(timers)

\* the end of a turn of cycle c that ran the loop to r: the cycle suspends
\* again, or pollMessages returns and the poll closure arms the next timer
\* e is what the turn has to report besides the dispatches that finished
TurnReporting(c, r, e) ==
    /\ cycles' = (cycles (-) SetToBag({c}))
                 (+) (IF r.cycle = <<>> THEN EmptyBag ELSE SetToBag({r.cycle[1]}))
    /\ IF r.cycle = <<>>
       THEN /\ timers' = timers \cup {FreshTimer}
            /\ pollInterval' = FreshTimer
       ELSE UNCHANGED <<timers, pollInterval>>
    /\ ev' = [e EXCEPT !.done = r.done]
    /\ UNCHANGED <<running, messageHandler, sigintHandlers, serverVars, clientVars>>

Turn(c, r, op) == TurnReporting(c, r, [NoEv EXCEPT !.op = op])

(* ------------------------------------------------------------------ *)
(* Actions                                                            *)
(* ------------------------------------------------------------------ *)

setMessageHandler(handler) ==
    /\ messageHandler' = handler
    /\ ev' = [NoEv EXCEPT !.op = "setMessageHandler"]
    /\ UNCHANGED <<pollVars, serverVars, clientVars>>

run ==
    IF AlreadyRunning
    THEN /\ ev' = [NoEv EXCEPT !.op = "run", !.noop = TRUE]
         /\ UNCHANGED <<pollVars, messageHandler, serverVars, clientVars>>
    ELSE /\ sigintHandlers < MaxRuns
         /\ running' = TRUE
         \* poll(): this.running was just set, so pollMessages issues its GET
         /\ cycles' = cycles (+) SetToBag({AwaitingGet})
         /\ sigintHandlers' = sigintHandlers + 1
         /\ ev' = [NoEv EXCEPT !.op = "run", !.get = TRUE]
         /\ UNCHANGED <<pollInterval, messageHandler, timers, serverVars, clientVars>>

stop ==
    IF NotRunning
    THEN /\ ev' = [NoEv EXCEPT !.op = "stop", !.noop = TRUE]
         /\ UNCHANGED <<pollVars, messageHandler, serverVars, clientVars>>
    ELSE /\ running' = FALSE
         /\ timers' = IF pollInterval # NoTimer THEN timers \ {pollInterval} ELSE timers
         /\ ev' = [NoEv EXCEPT !.op = "stop"]
         /\ UNCHANGED <<pollInterval, messageHandler, sigintHandlers, cycles, serverVars,
                       clientVars>>

\* a pending timeout fires and calls the poll closure
TimerFire(t) ==
    /\ t \in timers
    /\ timers' = timers \ {t}
    /\ IF PollGuard
       THEN /\ cycles' = cycles (+) SetToBag({AwaitingGet})
            /\ ev' = [NoEv EXCEPT !.op = "timer", !.get = TRUE]
       ELSE /\ cycles' = cycles
            /\ ev' = [NoEv EXCEPT !.op = "timer"]
    /\ UNCHANGED <<running, pollInterval, messageHandler, sigintHandlers, serverVars,
                   clientVars>>

\* the GET of a poll cycle settles
PollResponse(c, resp) ==
    /\ c \in BagToSet(cycles)
    /\ c.pc = "get"
    /\ \E outs \in HandlerChoices(PolledMessages(resp), messageHandler) :
          TurnReporting(c, DispatchFrom(PolledMessages(resp), outs, messageHandler, <<>>),
                        [NoEv EXCEPT !.op = "poll", !.polled = <<resp>>])

\* the promise a handler returned settles
HandlerSettle(c, o) ==
    /\ c \in BagToSet(cycles)
    /\ c.pc = "handler"
    /\ LET posts == Deliveries(c.msg, c.h, o)
       IN  IF posts # <<>>
           THEN Turn(c, [cycle |-> <<InDispatch("post", c.msg, c.rest, c.h, o, posts)>>,
                         done |-> <<>>], "handler")
           ELSE \E outs \in HandlerChoices(c.rest, messageHandler) :
                  Turn(c, AfterDispatch(
                            Dispatched(c.msg, c.h, o, posts, "none",
                                       IF o = "resolve" THEN "resolved" ELSE "rejected"),
                            c.rest, outs, messageHandler), "handler")

\* the delivery fetch of a dispatch settles
PostSettle(c, fo) ==
    /\ c \in BagToSet(cycles)
    /\ c.pc = "post"
    /\ \E outs \in HandlerChoices(c.rest, messageHandler) :
          Turn(c, AfterDispatch(
                    Dispatched(c.msg, c.h, c.how, c.posts, fo, RespondSettled(fo)),
                    c.rest, outs, messageHandler), "post")

Polling(M, n, H) ==
    \/ \E h \in H : setMessageHandler(h)
    \/ run
    \/ \E t \in timers : TimerFire(t)
    \/ \E c \in BagToSet(cycles) :
          \/ \E resp \in PollResponses(M, n) : PollResponse(c, resp)
          \/ \E o \in {"resolve", "reject"} : HandlerSettle(c, o)
          \/ \E fo \in FetchOutcomes : PostSettle(c, fo)

Next ==
    \/ Polling(LifecycleMessages, MaxBatch, LifecycleHandlers)
    \/ stop

Spec == Init /\ [][Next]_vars

\* a polling agent that is never stopped, fed every kind of message
NextDispatch == Polling(DispatchMessages, MaxDispatchBatch, Handlers)

SpecDispatch == Init /\ [][NextDispatch]_vars

\* a polling agent that is never stopped, fed batches of distinguishable messages
NextBatch == Polling(BatchMessages, MaxBatch, LifecycleHandlers)

SpecBatch == Init /\ [][NextBatch]_vars

\* a turn of the event loop: a due timer, or the continuation of a settled
\* fetch or handler promise
LoopTurn ==
    \/ \E t \in timers : TimerFire(t)
    \/ \E c \in BagToSet(cycles) :
          \/ \E resp \in PollResponses(BatchMessages, MaxBatch) : PollResponse(c, resp)
          \/ \E o \in {"resolve", "reject"} : HandlerSettle(c, o)
          \/ \E fo \in FetchOutcomes : PostSettle(c, fo)

\* the same agent in an event loop that runs every due timer and in a world
\* where every fetch and every handler promise settles
SpecBatchLive == SpecBatch /\ WF_vars(LoopTurn)

(* ------------------------------------------------------------------ *)
(* Server wrapper: authentication                                     *)
(* ------------------------------------------------------------------ *)

\* pieces of an Authorization header: the scheme word in two spellings, the
\* space, another whitespace character, and key characters
AuthSymbols == {"Bearer", "bearer", " ", "\t", "k", "x"}

\* pieces of an Authorization header the authentication specification draws
MaxHeaderLen == 4

AuthHeaders == {Absent} \cup UNION {[1..n -> AuthSymbols] : n \in 0..MaxHeaderLen}

\* String.prototype.toLowerCase
ToLowerCase(str) == [i \in 1..Len(str) |-> IF str[i] = "Bearer" THEN "bearer" ELSE str[i]]

\* the characters String.prototype.trim strips
Whitespace == {" ", "\t"}

RECURSIVE TrimStart(_)
TrimStart(str) ==
    IF str # <<>> /\ Head(str) \in Whitespace THEN TrimStart(Tail(str)) ELSE str

RECURSIVE TrimEnd(_)
TrimEnd(str) ==
    IF str # <<>> /\ str[Len(str)] \in Whitespace
    THEN TrimEnd(SubSeq(str, 1, Len(str) - 1))
    ELSE str

\* String.prototype.trim
Trim(str) == TrimEnd(TrimStart(str))

\* String.prototype.split(' ')
RECURSIVE Split(_)
Split(str) ==
    IF \A i \in 1..Len(str) : str[i] # " " THEN <<str>>
    ELSE LET i == CHOOSE k \in 1..Len(str) :
                      str[k] = " " /\ \A j \in 1..(k - 1) : str[j] # " "
         IN  <<SubSeq(str, 1, i - 1)>> \o Split(SubSeq(str, i + 1, Len(str)))

\* a verification that accepts every key
verifyFrequencyApiKey_Any(apiKey) == TRUE

verifyFrequencyApiKey(apiKey) == apiKey = frequencyApiKey

Unauthorized(error) == <<[status |-> 401, body |-> [error |-> error]]>>

\* the middleware: <<>> when it calls next(), else <<the response it sends>>
authenticateFrequency(authorization) ==
    IF ~Truthy(authorization) THEN Unauthorized("Missing Authorization header")
    ELSE LET parts == Split(authorization)
         IN  IF Len(parts) # 2 \/ ToLowerCase(parts[1]) # Str("bearer")
             THEN Unauthorized("Invalid Authorization header format")
             ELSE LET apiKey == Trim(parts[2])
                  IN  IF ~Truthy(apiKey) THEN Unauthorized("API key is empty")
                      ELSE IF ~verifyFrequencyApiKey(apiKey)
                      THEN Unauthorized("Invalid frequency API key")
                      ELSE <<>>

(* ------------------------------------------------------------------ *)
(* Server wrapper: routes                                             *)
(* ------------------------------------------------------------------ *)

\* ticks of the clock
MaxClock == 2
\* POST /a2a requests awaiting their handler at one time
MaxPending == 1

\* the values of enableHeartbeat and enableA2A
OptionValues == {"undefined", "true", "false"}

\* option !== false
Enabled(option) == option # "false"

DefaultOptions == [enableHeartbeat |-> "undefined", enableA2A |-> "undefined"]

\* the routes createServerWrapper registers
Routes(serverOptions) ==
    (IF Enabled(serverOptions.enableHeartbeat)
     THEN {"GET /health", "GET /heartbeat"} ELSE {})
    \cup (IF Enabled(serverOptions.enableA2A) THEN {"POST /a2a"} ELSE {})
    \cup {"GET /"}

\* JSON bodies of POST /a2a
A2ABodies == [content : {Absent, <<>>, Str("hello")}, message : {Absent, <<>>, Str("msg")}]

NoBody == [content |-> Absent, message |-> Absent]

Digits == <<"0", "1", "2", "3", "4", "5", "6", "7", "8", "9">>

\* `${n}` for a clock reading
NumStr(n) == Str(Digits[n + 1])

\* new Date().toISOString() reshaped to "YYYY-MM-DD HH:MM:SS UTC"
Timestamp(t) == Concat(NumStr(t), Str(" UTC"))

\* the route taking body.message first
MessageContent_MessageFirst(body) == OrElse(body.message, body.content)

\* content || message
MessageContent(body) == OrElse(body.content, body.message)

\* the mock message of the /a2a route
MockMessage(messageContent, t) ==
    [id |-> Concat(Str("a2a_"), NumStr(t)), content |-> messageContent,
     request_id |-> Concat(Str("a2a_req_"), NumStr(t)),
     created_at |-> Timestamp(t), agent_id |-> Absent, metadata |-> EmptyMetadata]

\* the route handing its answer to the dispatch core's routing
A2ADeliveries_ViaDispatch(message, responseContent) ==
    <<Delivery(message, responseContent)>>

\* the fetch calls the /a2a route makes for a handled message: it answers with
\* res.json only
A2ADeliveries(message, responseContent) == <<>>

Ok(body) == <<[status |-> 200, body |-> body]>>

\* (Date.now() - startupTime) / 1000 rounded to hundredths, in hundredths
UptimeCentis == IF startupTime # <<>> THEN ((now - startupTime[1]) + 5) \div 10 ELSE 0

HealthBody ==
    [status |-> "healthy", timestamp |-> Timestamp(now), uptimeCentis |-> UptimeCentis]

InfoBody ==
    [service |-> Concat(Str("Endercom Agent - "), agentId), status |-> "running",
     agent_id |-> agentId,
     health |-> IF Enabled(app[1].enableHeartbeat) THEN "/health or /heartbeat" ELSE "disabled",
     a2a |-> IF Enabled(app[1].enableA2A) THEN "POST /a2a" ELSE "disabled"]

A2ASuccess(responseContent) ==
    Ok([success |-> TRUE, response |-> responseContent, timestamp |-> Timestamp(now)])

\* a catch block of the /a2a route that answers with the default status
A2AFailure_Status200 == <<[status |-> 200, body |-> [error |-> "Message processing failed"]]>>

\* a catch block of the /a2a route that only logs
A2AFailure_Silent == <<>>

A2AFailure == <<[status |-> 500, body |-> [error |-> "Message processing failed"]]>>

BadRequest ==
    <<[status |-> 400, body |-> [error |-> "Either 'content' or 'message' field is required"]]>>

\* an inbound request of the client
Request(route, body) == [route |-> route, authorization |-> clientAuth, body |-> body]

Answer(op, req, res, ran, calls, posts) ==
    ev' = [NoEv EXCEPT !.op = op, !.req = <<req>>, !.res = res, !.ran = ran,
                       !.calls = calls, !.posts = posts]

\* the turn of a request whose route called the handler: the call, how it has
\* ended so far, and the response (<<>> while the handler's promise is pending)
Handled(op, req, res, call, how, posts) ==
    ev' = [NoEv EXCEPT !.op = op, !.req = <<req>>, !.res = res, !.ran = TRUE,
                       !.calls = <<call>>, !.how = <<how>>, !.posts = posts]

(* ------------------------------------------------------------------ *)
(* Server wrapper: actions                                            *)
(* ------------------------------------------------------------------ *)

\* a createServerWrapper without the test of expressAvailable
createServerWrapper_NoGuard(serverOptions) ==
    /\ startupTime' = <<now>>
    /\ app' = <<serverOptions>>
    /\ ev' = [NoEv EXCEPT !.op = "createServerWrapper"]
    /\ UNCHANGED <<pollVars, messageHandler, expressAvailable, listening, now,
                   a2aPending, clientAuth, clientVars>>

createServerWrapper(serverOptions) ==
    /\ IF ~expressAvailable
       THEN /\ ev' = [NoEv EXCEPT !.op = "createServerWrapper", !.noop = TRUE]
            /\ UNCHANGED <<app, startupTime>>
       ELSE /\ startupTime' = <<now>>
            /\ app' = <<serverOptions>>
            /\ ev' = [NoEv EXCEPT !.op = "createServerWrapper"]
    /\ UNCHANGED <<pollVars, messageHandler, expressAvailable, listening, now,
                   a2aPending, clientAuth, clientVars>>

\* a runServer that also switches the agent to running
runServer_SetsRunning(serverOptions) ==
    /\ expressAvailable
    /\ startupTime' = <<now>>
    /\ app' = <<serverOptions>>
    /\ listening' = TRUE
    /\ running' = TRUE
    /\ ev' = [NoEv EXCEPT !.op = "runServer"]
    /\ UNCHANGED <<pollInterval, sigintHandlers, timers, cycles, messageHandler,
                   expressAvailable, now, a2aPending, clientAuth, clientVars>>

runServer(serverOptions) ==
    /\ IF ~expressAvailable
       THEN /\ ev' = [NoEv EXCEPT !.op = "runServer", !.noop = TRUE]
            /\ UNCHANGED <<app, startupTime, listening>>
       ELSE /\ startupTime' = <<now>>
            /\ app' = <<serverOptions>>
            /\ listening' = TRUE
            /\ ev' = [NoEv EXCEPT !.op = "runServer"]
    /\ UNCHANGED <<pollVars, messageHandler, expressAvailable, now, a2aPending, clientAuth,
                   clientVars>>

Tick ==
    /\ now < MaxClock
    /\ now' = now + 1
    /\ ev' = [NoEv EXCEPT !.op = "tick"]
    /\ UNCHANGED <<pollVars, messageHandler, expressAvailable, app, startupTime,
                   listening, a2aPending, clientAuth, clientVars>>

\* GET /health, GET /heartbeat and GET /
GetRoute(route) ==
    /\ app # <<>>
    /\ route \in Routes(app[1]) \ {"POST /a2a"}
    /\ LET req == Request(route, NoBody)
           denied == authenticateFrequency(req.authorization)
       IN  IF denied # <<>>
           THEN Answer("request", req, denied, FALSE, <<>>, <<>>)
           ELSE Answer("request", req,
                       Ok(IF route = "GET /" THEN InfoBody ELSE HealthBody),
                       TRUE, <<>>, <<>>)
    /\ UNCHANGED <<pollVars, messageHandler, serverVars, clientVars>>

\* POST /a2a up to the response or to the await on the handler's promise
PostA2A(body) ==
    /\ app # <<>>
    /\ "POST /a2a" \in Routes(app[1])
    /\ LET req == Request("POST /a2a", body)
           denied == authenticateFrequency(req.authorization)
           messageContent == MessageContent(body)
           mockMessage == MockMessage(messageContent, now)
           h == ActiveHandler(messageHandler)
           call == [registered |-> messageHandler, h |-> h, msg |-> mockMessage]
       IN  IF denied # <<>>
           THEN /\ Answer("request", req, denied, FALSE, <<>>, <<>>)
                /\ UNCHANGED a2aPending
           ELSE IF ~Truthy(messageContent)
           THEN /\ Answer("request", req, BadRequest, TRUE, <<>>, <<>>)
                /\ UNCHANGED a2aPending
           ELSE \E o \in SyncOutcomes(h) :
                  CASE o = "return" ->
                         /\ Handled("request", req, A2ASuccess(HandlerReturn(h, mockMessage)),
                                    call, o,
                                    A2ADeliveries(mockMessage, HandlerReturn(h, mockMessage)))
                         /\ UNCHANGED a2aPending
                    [] o = "throw" ->
                         /\ Handled("request", req, A2AFailure, call, o, <<>>)
                         /\ UNCHANGED a2aPending
                    [] o = "async" ->
                         /\ BagCardinality(a2aPending) < MaxPending
                         /\ a2aPending' = a2aPending (+) SetToBag({[req |-> req, call |-> call]})
                         /\ Handled("request", req, <<>>, call, o, <<>>)
    /\ UNCHANGED <<pollVars, messageHandler, expressAvailable, app, startupTime,
                   listening, now, clientAuth, clientVars>>

\* the promise of an /a2a handler settles
A2ASettle(p, o) ==
    /\ p \in BagToSet(a2aPending)
    /\ a2aPending' = a2aPending (-) SetToBag({p})
    /\ IF o = "resolve"
       THEN Handled("a2aSettle", p.req, A2ASuccess(HandlerReturn(p.call.h, p.call.msg)),
                    p.call, o,
                    A2ADeliveries(p.call.msg, HandlerReturn(p.call.h, p.call.msg)))
       ELSE Handled("a2aSettle", p.req, A2AFailure, p.call, o, <<>>)
    /\ UNCHANGED <<pollVars, messageHandler, expressAvailable, app, startupTime,
                   listening, now, clientAuth, clientVars>>

\* the server wrapper created with options from O, requests with bodies from B
Serving(O, B, H) ==
    \/ \E h \in H : setMessageHandler(h)
    \/ \E o \in O : createServerWrapper(o)
    \/ \E o \in O : runServer(o)
    \/ Tick
    \/ \E route \in {"GET /health", "GET /heartbeat", "GET /"} : GetRoute(route)
    \/ \E body \in B : PostA2A(body)
    \/ \E p \in BagToSet(a2aPending), o \in {"resolve", "reject"} : A2ASettle(p, o)

\* clients of the server specification: no header, the right key, a wrong key
ServerHeaders == {Absent, Bearer(frequencyApiKey), Bearer(Str("x"))}

ServerOptionSets == [enableHeartbeat : {"undefined", "false"}, enableA2A : {"undefined", "false"}]

InitServer == \E e \in BOOLEAN, auth \in ServerHeaders : InitWith(e, auth)

NextServer == Serving(ServerOptionSets, A2ABodies, LifecycleHandlers)

SpecServer == InitServer /\ [][NextServer]_vars

\* every Authorization header against the default server
InitAuth == \E auth \in AuthHeaders : InitWith(TRUE, auth)

NextAuth ==
    \/ \E h \in LifecycleHandlers : setMessageHandler(h)
    \/ createServerWrapper(DefaultOptions)
    \/ \E route \in {"GET /health", "GET /heartbeat", "GET /"} : GetRoute(route)
    \/ PostA2A([content |-> Str("hello"), message |-> Absent])
    \/ \E p \in BagToSet(a2aPending), o \in {"resolve", "reject"} : A2ASettle(p, o)

SpecAuth == InitAuth /\ [][NextAuth]_vars

\* an agent that polls and serves the default routes at once, with a client
\* holding the right key
NextAgent ==
    \/ Polling(LifecycleMessages, MaxBatch, Handlers)
    \/ createServerWrapper(DefaultOptions)
    \/ runServer(DefaultOptions)
    \/ \E route \in {"GET /health", "GET /heartbeat", "GET /"} : GetRoute(route)
    \/ PostA2A([content |-> Str("hello"), message |-> Absent])
    \/ \E p \in BagToSet(a2aPending), o \in {"resolve", "reject"} : A2ASettle(p, o)

SpecAgent == Init /\ [][NextAgent]_vars

(* ------------------------------------------------------------------ *)
(* The interrupt signal                                               *)
(* ------------------------------------------------------------------ *)

\* a listener that only calls process.exit(0)
Sigint_ExitOnly ==
    /\ sigintHandlers > 0
    /\ exited' = TRUE
    /\ ev' = [NoEv EXCEPT !.op = "SIGINT"]
    /\ UNCHANGED <<pollVars, messageHandler, serverVars, outbound>>

\* SIGINT arrives at a process in which run() registered a listener: the first
\* listener calls this.stop() and then process.exit(0), which ends the process
\* before any other listener or turn runs
Sigint ==
    /\ sigintHandlers > 0
    /\ IF NotRunning
       THEN UNCHANGED <<running, timers>>
       ELSE /\ running' = FALSE
            /\ timers' = IF pollInterval # NoTimer THEN timers \ {pollInterval} ELSE timers
    /\ exited' = TRUE
    /\ ev' = [NoEv EXCEPT !.op = "SIGINT"]
    /\ UNCHANGED <<pollInterval, messageHandler, sigintHandlers, cycles, serverVars,
                   outbound>>

\* the lifecycle of a process that can be interrupted: nothing runs once the
\* process has exited
NextSignal ==
    \/ ~exited /\ Polling(LifecycleMessages, MaxDispatchBatch, LifecycleHandlers)
    \/ ~exited /\ stop
    \/ ~exited /\ Sigint

SpecSignal == Init /\ [][NextSignal]_vars

(* ------------------------------------------------------------------ *)
(* Outbound API: sendMessage and talkToAgent                          *)
(* ------------------------------------------------------------------ *)

\* calls of sendMessage / talkToAgent awaiting their fetch at one time
MaxCalls == 2

\* `${this.freqBase}/messages/send`
SendEndpoint == Str("freqBase/messages/send")

\* `${this.baseUrl}/api/${this.frequencyId}/agents/${targetAgentId}/talk`
TalkEndpoint(targetAgentId) ==
    Concat(Str("baseUrl/api/frequencyId/agents/"), Concat(targetAgentId, Str("/talk")))

\* the contents and targets the application passes
Contents == {Str("hi")}
Targets == {Absent, <<>>, Str("agent-2")}

\* a payload that always carries target_agent
sendMessagePayload_AlwaysTarget(content, targetAgentId) ==
    [content |-> content, target_agent |-> targetAgentId]

\* the payload of sendMessage: target_agent is Absent when the property is not set
sendMessagePayload(content, targetAgentId) ==
    [content |-> content,
     target_agent |-> IF Truthy(targetAgentId) THEN targetAgentId ELSE Absent]

\* the fetch sendMessage issues
sendMessageFetch(content, targetAgentId) ==
    [method |-> "POST", url |-> SendEndpoint,
     authorization |-> Bearer(frequencyApiKey), xAgentId |-> agentId,
     body |-> sendMessagePayload(content, targetAgentId)]

\* what sendMessage resolves with: response.ok, or false from the catch block
sendMessageResult(fetchOutcome) ==
    IF fetchOutcome = "neterr" THEN FALSE ELSE fetchOutcome = "2xx"

\* timeout: number = 60000
DefaultTimeout == 60000

\* the fetch talkToAgent issues
talkToAgentFetch(targetAgentId, content, awaitResponse, timeout) ==
    [method |-> "POST", url |-> TalkEndpoint(targetAgentId),
     authorization |-> Bearer(frequencyApiKey), xAgentId |-> Absent,
     body |-> [content |-> content, await |-> awaitResponse, timeout |-> timeout]]

\* the value null
Null == <<"null">>

\* what response.json() of the talk endpoint can yield: a rejection (the body
\* is not JSON), the value null, or an object {success?, data?: {response?:
\* {content?}}}; data and response are <<>> when missing or null, else <<object>>
TalkBodies ==
    {[kind |-> "unparsable", success |-> "undefined", data |-> <<>>],
     [kind |-> "null", success |-> "undefined", data |-> <<>>]}
    \cup [kind : {"object"}, success : {"true", "false", "undefined"},
          data : {<<>>, <<[response |-> <<>>]>>}
                 \cup {<<[response |-> <<[content |-> c]>>]>> :
                          c \in {Absent, <<>>, Str("reply")}}]

NoTalkBody == [kind |-> "unparsable", success |-> "undefined", data |-> <<>>]

\* how the fetch of talkToAgent can end
TalkResponses ==
    {[net |-> "error", ok |-> FALSE, body |-> NoTalkBody],
     [net |-> "ok", ok |-> FALSE, body |-> NoTalkBody]}
    \cup [net : {"ok"}, ok : {TRUE}, body : TalkBodies]

\* a talkToAgent that returns the reply whatever awaitResponse says
talkToAgentSettled_IgnoreAwait(awaitResponse, resp) ==
    IF resp.net = "ok" /\ resp.ok /\ resp.body.kind = "object"
       /\ resp.body.success = "true"
       /\ resp.body.data # <<>> /\ resp.body.data[1].response # <<>>
    THEN [result |-> resp.body.data[1].response[1].content, json |-> TRUE,
          reads |-> {"success", "data", "response", "content"}]
    ELSE [result |-> Null, json |-> FALSE, reads |-> {}]

\* talkToAgent after its fetch settled: the value it resolves with, whether it
\* called response.json(), and the properties of the parsed body it read
talkToAgentSettled(awaitResponse, resp) ==
    IF resp.net = "error" THEN [result |-> Null, json |-> FALSE, reads |-> {}]
    ELSE IF ~resp.ok THEN [result |-> Null, json |-> FALSE, reads |-> {}]
    \* await response.json() rejects: catch
    ELSE IF resp.body.kind = "unparsable"
    THEN [result |-> Null, json |-> TRUE, reads |-> {}]
    \* data.success on null throws: catch
    ELSE IF resp.body.kind = "null"
    THEN [result |-> Null, json |-> TRUE, reads |-> {"success"}]
    ELSE IF resp.body.success # "true"
    THEN [result |-> Null, json |-> TRUE, reads |-> {"success", "error"}]
    ELSE IF ~awaitResponse
    THEN [result |-> Null, json |-> TRUE, reads |-> {"success"}]
    ELSE IF resp.body.data = <<>>
    THEN [result |-> Null, json |-> TRUE, reads |-> {"success", "data"}]
    ELSE IF resp.body.data[1].response = <<>>
    THEN [result |-> Null, json |-> TRUE, reads |-> {"success", "data", "response"}]
    ELSE [result |-> resp.body.data[1].response[1].content, json |-> TRUE,
          reads |-> {"success", "data", "response", "content"}]

\* sendMessage up to its await fetch
sendMessage(content, targetAgentId) ==
    /\ BagCardinality(outbound) < MaxCalls
    /\ LET call == [fn |-> "sendMessage", content |-> content,
                    targetAgentId |-> targetAgentId,
                    fetch |-> sendMessageFetch(content, targetAgentId)]
       IN  /\ outbound' = outbound (+) SetToBag({call})
           /\ ev' = [NoEv EXCEPT !.op = "sendMessage", !.out = <<[call |-> call]>>]
    /\ UNCHANGED <<pollVars, messageHandler, serverVars, exited>>

\* the fetch of a sendMessage call settles
SendSettle(p, fetchOutcome) ==
    /\ p \in BagToSet(outbound)
    /\ p.fn = "sendMessage"
    /\ outbound' = outbound (-) SetToBag({p})
    /\ ev' = [NoEv EXCEPT !.op = "sendSettle",
                          !.out = <<[call |-> p, fetched |-> fetchOutcome,
                                     settled |-> "resolved",
                                     sent |-> sendMessageResult(fetchOutcome)]>>]
    /\ UNCHANGED <<pollVars, messageHandler, serverVars, exited>>

\* talkToAgent up to its await fetch
talkToAgent(targetAgentId, content, awaitResponse, timeout) ==
    /\ BagCardinality(outbound) < MaxCalls
    /\ LET call == [fn |-> "talkToAgent", targetAgentId |-> targetAgentId,
                    content |-> content, awaitResponse |-> awaitResponse,
                    fetch |-> talkToAgentFetch(targetAgentId, content,
                                               awaitResponse, timeout)]
       IN  /\ outbound' = outbound (+) SetToBag({call})
           /\ ev' = [NoEv EXCEPT !.op = "talkToAgent", !.out = <<[call |-> call]>>]
    /\ UNCHANGED <<pollVars, messageHandler, serverVars, exited>>

\* the fetch of a talkToAgent call settles and the call runs to its return
TalkSettle(p, resp) ==
    /\ p \in BagToSet(outbound)
    /\ p.fn = "talkToAgent"
    /\ outbound' = outbound (-) SetToBag({p})
    /\ LET r == talkToAgentSettled(p.awaitResponse, resp)
       IN  ev' = [NoEv EXCEPT !.op = "talkSettle",
                             !.out = <<[call |-> p, response |-> resp,
                                        settled |-> "resolved", result |-> r.result,
                                        json |-> r.json, reads |-> r.reads]>>]
    /\ UNCHANGED <<pollVars, messageHandler, serverVars, exited>>

NextClient ==
    \/ \E content \in Contents, target \in Targets : sendMessage(content, target)
    \/ \E content \in Contents, awaitResponse \in BOOLEAN :
          talkToAgent(Str("agent-2"), content, awaitResponse, DefaultTimeout)
    \/ \E p \in BagToSet(outbound) :
          \/ \E fetchOutcome \in FetchOutcomes : SendSettle(p, fetchOutcome)
          \/ \E resp \in TalkResponses : TalkSettle(p, resp)

SpecClient == Init /\ [][NextClient]_vars

(* ------------------------------------------------------------------ *)
(* Dispatch core: response routing (C1 - C4)                          *)
(* ------------------------------------------------------------------ *)

\* the calls of handleMessage that finished in the last turn
Finished == {ev.done[i] : i \in 1..Len(ev.done)}

\* the calls of handleMessage in flight that have issued their fetch
Posting == {c \in BagToSet(cycles) : c.pc = "post"}

HandlerSucceeded(d) == d.handler \in {"return", "resolve"}

\* metadata.response_url names a URL
UrlSet(message) == message.metadata.response_url \notin {Absent, <<>>}

Urls(posts) == {posts[i].url : i \in 1..Len(posts)}

RoutedRight(message, posts) ==
    /\ posts # <<>>
    /\ IF UrlSet(message)
       THEN Urls(posts) = {message.metadata.response_url}
       ELSE Urls(posts) = {RespondEndpoint}

\* C1: a message whose handler succeeded is answered at metadata.response_url
\* and not at the platform respond endpoint when response_url is set, and at
\* the respond endpoint and at no other URL when it is not set.
C1_RoutingByResponseUrl ==
    /\ \A d \in Finished : HandlerSucceeded(d) => RoutedRight(d.msg, d.posts)
    /\ \A c \in Posting : RoutedRight(c.msg, c.posts)

C1_Witness ==
    \E d \in Finished :
        /\ HandlerSucceeded(d)
        /\ UrlSet(d.msg)
        /\ Urls(d.posts) = {d.msg.metadata.response_url}

RequestIds(posts) == {posts[i].body.request_id : i \in 1..Len(posts)}

\* C2 as stated: the delivered request_id is metadata.request_id whenever the
\* message carries one, else message.request_id.
C2_Original ==
    \A d \in Finished :
        HandlerSucceeded(d) =>
            RequestIds(d.posts) =
                {IF d.msg.metadata.request_id # Absent
                 THEN d.msg.metadata.request_id
                 ELSE d.msg.request_id}

\* the request_id the direct callback carries
CallbackRequestId(message) ==
    IF message.metadata.request_id \notin {Absent, <<>>}
    THEN message.metadata.request_id
    ELSE message.request_id

\* C2 amended: on the direct-callback path the delivered request_id is
\* metadata.request_id when that is present and not empty, else
\* message.request_id; on the queued path it is always message.request_id.
C2_RequestIdByPath ==
    \A d \in Finished :
        HandlerSucceeded(d) =>
            RequestIds(d.posts) =
                {IF UrlSet(d.msg) THEN CallbackRequestId(d.msg) ELSE d.msg.request_id}

C2_Witness ==
    \E d \in Finished :
        /\ HandlerSucceeded(d)
        /\ UrlSet(d.msg)
        /\ d.msg.metadata.request_id = Str("meta-req")
        /\ RequestIds(d.posts) = {Str("meta-req")}

\* C3: a call of handleMessage makes exactly one fetch when the handler
\* succeeded, whatever that fetch came back with, and none when it failed.
C3_OnePostPerDispatch ==
    /\ \A d \in Finished :
          Len(d.posts) = (IF HandlerSucceeded(d) THEN 1 ELSE 0)
    /\ \A c \in Posting : Len(c.posts) = 1

C3_Witness ==
    \E d \in Finished : d.fetch = "non2xx" /\ Len(d.posts) = 1

\* C4: handleMessage resolves whatever the handler and the delivery did.
C4_DispatchNeverRejects ==
    \A d \in Finished : d.result = "resolved"

C4_Witness ==
    \E d \in Finished : d.handler = "reject" /\ d.result = "resolved"

(* ------------------------------------------------------------------ *)
(* Poll lifecycle: run() and stop() (C6 - C8)                         *)
(* ------------------------------------------------------------------ *)

\* poll cycles waiting for the response of their GET
GetsInFlight == CopiesIn(AwaitingGet, cycles)

\* C6: run() on an agent that is already running starts no poll cycle and arms
\* no timer, and when the agent was started once and never stopped exactly one
\* poll loop (a cycle in flight or a pending timer) exists afterwards.
C6_SecondRunAddsNoLoop ==
    [][(ev'.op = "run" /\ running) =>
          /\ cycles' = cycles
          /\ timers' = timers
          /\ (sigintHandlers = 1 => ActiveLoops' = 1)]_vars

C6_Witness ==
    /\ ev.op = "run"
    /\ ev.noop
    /\ sigintHandlers = 1
    /\ ActiveLoops = 1

\* C7: while the agent is stopped no GET to the poll endpoint is issued: no
\* step that starts and ends with running = FALSE adds a poll cycle.
C7_NoPollAfterStop ==
    [][(~running /\ ~running') =>
          /\ GetsInFlight' <= GetsInFlight
          /\ BagCardinality(cycles') <= BagCardinality(cycles)]_vars

\* a timer armed by a cycle that was in flight at stop() has fired and found
\* the agent stopped
C7_Witness ==
    /\ ev.op = "timer"
    /\ ~running
    /\ ~ev.get
    /\ sigintHandlers = 1

\* C8: run() on a running agent and stop() on a stopped agent change nothing:
\* not the running flag, the timer handle, the handler, the SIGINT listeners,
\* the pending timers or the poll cycles in flight.
C8_RunStopIdempotent ==
    [][((ev'.op = "run" /\ running) \/ (ev'.op = "stop" /\ ~running)) =>
          UNCHANGED <<running, pollInterval, messageHandler, sigintHandlers,
                      timers, cycles>>]_vars

\* stop() was called on a stopped agent while a timer was pending
C8_Witness ==
    /\ ev.op = "stop"
    /\ ev.noop
    /\ ~running
    /\ timers # {}

(* ------------------------------------------------------------------ *)
(* Server wrapper: authentication and POST /a2a (C5, C9, C10)         *)
(* ------------------------------------------------------------------ *)

\* the last turn worked on an inbound request
Served == ev.req # <<>>

SchemeWords == {"Bearer", "bearer"}

\* "Bearer <key>" with the key exactly the configured one
ExactBearer(authorization) ==
    \E w \in SchemeWords : authorization = Concat(<<w, " ">>, frequencyApiKey)

\* runs of whitespace other than the space
Padding == UNION {[1..n -> {"\t"}] : n \in 0..(MaxHeaderLen + 1)}

\* "Bearer <key>" with the key the configured one once the whitespace around it
\* is trimmed
TrimmedBearer(authorization) ==
    \E w \in SchemeWords, pre \in Padding, post \in Padding :
        authorization = Concat(<<w, " ">>, Concat(pre, Concat(frequencyApiKey, post)))

\* the request was turned away with 401 before the route body or the handler ran
Rejected401 ==
    /\ ev.res # <<>>
    /\ ev.res[1].status = 401
    /\ ~ev.ran
    /\ ev.calls = <<>>

\* the route body ran: no 401 was sent
Admitted ==
    /\ ev.ran
    /\ ev.res # <<>> => ev.res[1].status # 401

\* C5 as stated: a request is admitted when its header is "Bearer <key>" with
\* the key exactly equal to frequencyApiKey, and answered 401 without running
\* the route body otherwise.
C5_Original ==
    Served => IF ExactBearer(ev.req[1].authorization) THEN Admitted ELSE Rejected401

\* C5 amended: the key is compared after the whitespace around the second
\* token is trimmed.
C5_BearerKeyGuardsRoutes ==
    Served => IF TrimmedBearer(ev.req[1].authorization) THEN Admitted ELSE Rejected401

\* a wrong key was turned away
C5_Witness ==
    /\ Served
    /\ ev.req[1].authorization = Bearer(Str("x"))
    /\ Rejected401

IsA2A == Served /\ ev.req[1].route = "POST /a2a"

NonEmpty(v) == v \notin {Absent, <<>>}

\* C9: an authenticated POST /a2a hands the handler body.content when that is
\* non-empty and body.message otherwise, and answers 400 without calling the
\* handler when neither is.
C9_ContentThenMessage ==
    (IsA2A /\ ev.ran) =>
        LET body == ev.req[1].body
            wanted == IF NonEmpty(body.content) THEN body.content ELSE body.message
        IN  IF NonEmpty(wanted)
            THEN /\ Len(ev.calls) = 1
                 /\ ev.calls[1].msg.content = wanted
                 /\ ev.res # <<>> => ev.res[1].status # 400
            ELSE /\ ev.res # <<>>
                 /\ ev.res[1].status = 400
                 /\ ev.calls = <<>>

\* an empty content fell back to message
C9_Witness ==
    /\ IsA2A
    /\ ev.ran
    /\ ev.req[1].body.content = <<>>
    /\ ev.req[1].body.message = Str("msg")
    /\ Len(ev.calls) = 1
    /\ ev.calls[1].msg.content = Str("msg")

\* the reply of the handler that was registered when the route called it
ReplyOfRegistered(call) ==
    IF call.registered = NoHandler
    THEN Concat(Str("Echo: "), call.msg.content)
    ELSE Concat(<<"reply of", call.registered, "to">>, call.msg.content)

\* C10: an authenticated POST /a2a with a valid body calls the active handler
\* once on a message with empty metadata, makes no outbound fetch, and when the
\* handler succeeds answers 200 {success: true, response} with its result.
C10_A2AAnswersInBand ==
    (IsA2A /\ ev.ran /\ ev.calls # <<>>) =>
        /\ Len(ev.calls) = 1
        /\ ev.calls[1].msg.metadata = EmptyMetadata
        /\ ev.calls[1].h = (IF ev.calls[1].registered = NoHandler
                            THEN DefaultHandler ELSE ev.calls[1].registered)
        /\ ev.posts = <<>>
        /\ (ev.res # <<>> /\ ev.res[1].status = 200) =>
              /\ ev.res[1].body.success = TRUE
              /\ ev.res[1].body.response = ReplyOfRegistered(ev.calls[1])
        /\ (ev.res # <<>> /\ ev.op = "request") => ev.res[1].status \in {200, 500}

\* a registered handler answered asynchronously
C10_Witness ==
    /\ IsA2A
    /\ ev.op = "a2aSettle"
    /\ ev.res # <<>>
    /\ ev.res[1].status = 200
    /\ ev.calls[1].registered = "h1"
    /\ ev.posts = <<>>

(* ------------------------------------------------------------------ *)
(* Handler failures on the two inbound paths (C11)                    *)
(* ------------------------------------------------------------------ *)

HandlerFailed(d) == d.handler \in {"throw", "reject"}

\* the handler called for the POST /a2a of the last turn threw or rejected
A2AHandlerFailed == IsA2A /\ ev.how # <<>> /\ ev.how[1] \in {"throw", "reject"}

\* C11: a handler that throws or rejects makes POST /a2a answer 500 with an
\* error message, and makes a polled dispatch end without any fetch and
\* without any response: no dispatch whose handler failed is ever delivering.
C11_FailureAsymmetry ==
    /\ A2AHandlerFailed =>
          /\ ev.res # <<>>
          /\ ev.res[1].status = 500
          /\ ev.res[1].body.error = "Message processing failed"
          /\ ev.posts = <<>>
    /\ \A d \in Finished :
          HandlerFailed(d) => d.posts = <<>> /\ d.fetch = "none" /\ ev.res = <<>>
    /\ \A c \in Posting : c.how \in {"return", "resolve"}

\* a handler promise rejected under POST /a2a while the agent was polling, and
\* the request was answered 500
C11_Witness ==
    /\ A2AHandlerFailed
    /\ ev.op = "a2aSettle"
    /\ ev.how = <<"reject">>
    /\ ev.res[1].status = 500
    /\ running

\* the poll-side case: a polled dispatch whose handler rejected ended silently
C11_PollSideReached ==
    \E d \in Finished : d.handler = "reject" /\ d.posts = <<>>

(* ------------------------------------------------------------------ *)
(* Outbound API: sendMessage (C12)                                    *)
(* ------------------------------------------------------------------ *)

\* a target was passed: the argument is there and is not the empty string
TargetGiven(call) == call.targetAgentId \notin {Absent, <<>>}

\* C12: sendMessage issues one POST to the send endpoint whose body carries
\* target_agent exactly when a target was passed, and it resolves, never
\* rejects, with true when that POST came back 2xx and with false when it came
\* back non-2xx or failed on the network.
C12_SendResult ==
    /\ ev.op = "sendMessage" =>
          LET call == ev.out[1].call
          IN  /\ call.fetch.method = "POST"
              /\ call.fetch.url = SendEndpoint
              /\ call.fetch.body.content = call.content
              /\ call.fetch.body.target_agent =
                    (IF TargetGiven(call) THEN call.targetAgentId ELSE Absent)
    /\ ev.op = "sendSettle" =>
          /\ ev.out[1].settled = "resolved"
          /\ ev.out[1].sent = (ev.out[1].fetched = "2xx")

\* a message sent to a named agent was refused by the platform
C12_Witness ==
    /\ ev.op = "sendSettle"
    /\ ev.out[1].fetched = "non2xx"
    /\ ev.out[1].sent = FALSE
    /\ ev.out[1].call.targetAgentId = Str("agent-2")
    /\ ev.out[1].call.fetch.body.target_agent = Str("agent-2")

(* ------------------------------------------------------------------ *)
(* Outbound API: talkToAgent (C13, C14)                               *)
(* ------------------------------------------------------------------ *)

\* a call of talkToAgent returned in the last turn
Talked == ev.op = "talkSettle"

\* C13 as stated: with awaitResponse = false the call resolves to null and
\* reads no field of the response body, whatever the HTTP call did.
C13_Original ==
    (Talked /\ ~ev.out[1].call.awaitResponse) =>
        /\ ev.out[1].settled = "resolved"
        /\ ev.out[1].result = Null
        /\ ev.out[1].reads = {}

\* C13 amended: with awaitResponse = false the call resolves to null whatever
\* the HTTP call did; on a 2xx status it still parses the body and reads its
\* success field (and error when success is not true), but never the reply
\* (data, response, content).
C13_NoAwaitNoReply ==
    (Talked /\ ~ev.out[1].call.awaitResponse) =>
        /\ ev.out[1].settled = "resolved"
        /\ ev.out[1].result = Null
        /\ ev.out[1].reads \subseteq {"success", "error"}
        /\ ev.out[1].json = (ev.out[1].response.net = "ok" /\ ev.out[1].response.ok)
        /\ (ev.out[1].json /\ ev.out[1].response.body.kind # "unparsable")
              => "success" \in ev.out[1].reads

\* a reply was there to take, and the call that did not await it returned null
C13_Witness ==
    /\ Talked
    /\ ~ev.out[1].call.awaitResponse
    /\ ev.out[1].response.ok
    /\ ev.out[1].response.body.success = "true"
    /\ ev.out[1].response.body.data = <<[response |-> <<[content |-> Str("reply")]>>]>>
    /\ ev.out[1].result = Null
    /\ ev.out[1].reads = {"success"}

\* the response is a 2xx whose body is {success: true, data: {response:
\* {content: <string>}}}
ReplyCarried(resp) ==
    /\ resp.net = "ok"
    /\ resp.ok
    /\ resp.body.kind = "object"
    /\ resp.body.success = "true"
    /\ resp.body.data # <<>>
    /\ resp.body.data[1].response # <<>>
    /\ resp.body.data[1].response[1].content # Absent

\* C14 as stated: talkToAgent resolves, never rejects; it resolves to the
\* nested reply content only for a 2xx response with success true and
\* awaitResponse true, and to null for a non-2xx status, a network error, a
\* malformed payload or success false.
C14_Original ==
    Talked =>
        /\ ev.out[1].settled = "resolved"
        /\ IF ev.out[1].call.awaitResponse /\ ReplyCarried(ev.out[1].response)
           THEN ev.out[1].result = ev.out[1].response.body.data[1].response[1].content
           ELSE ev.out[1].result = Null

\* what the code does keep: the call resolves, and a value other than null
\* comes only from a 2xx response with success true under awaitResponse true
C14_NonNullOnlyOnSuccess ==
    (Talked /\ ev.out[1].result # Null) =>
        /\ ev.out[1].settled = "resolved"
        /\ ev.out[1].call.awaitResponse
        /\ ev.out[1].response.ok
        /\ ev.out[1].response.body.success = "true"

\* an awaited reply was returned
C14_ReplyReturned ==
    /\ Talked
    /\ ev.out[1].call.awaitResponse
    /\ ev.out[1].result = Str("reply")

(* ------------------------------------------------------------------ *)
(* The handler in use (C15, C16)                                      *)
(* ------------------------------------------------------------------ *)

\* the function registered now, or the default echo when none is
Registered == IF messageHandler = NoHandler THEN DefaultHandler ELSE messageHandler

\* c2 is a dispatch suspended after this turn whose handler this turn called:
\* its cycle came from the GET or moved on to a later message of its batch
NewlyInvoked(c2) ==
    /\ c2.pc \in {"handler", "post"}
    /\ \E c \in BagToSet(cycles) :
          /\ c \notin BagToSet(cycles') \/ CopiesIn(c, cycles') < CopiesIn(c, cycles)
          /\ c.pc = "get" \/ Len(c2.rest) < Len(c.rest)

\* C15: every handler call a turn makes, for a polled message (also a later
\* message of a batch whose earlier dispatch was awaited) or for POST /a2a, is
\* a call of the handler registered at that moment; a dispatch whose handler
\* was called before keeps that handler and its reply, and setMessageHandler
\* touches no dispatch in flight.
C15_HandlerReadAtInvocation ==
    [][/\ ev'.op \in {"poll", "handler", "post"} =>
            /\ \A i \in 1..Len(ev'.done) :
                  (i > 1 \/ ev'.op = "poll") => ev'.done[i].h = Registered
            /\ \A c2 \in BagToSet(cycles') : NewlyInvoked(c2) => c2.h = Registered
            /\ (ev'.op # "poll" /\ ev'.done # <<>>) =>
                  \E c \in BagToSet(cycles) :
                      /\ c.pc # "get"
                      /\ ev'.done[1].h = c.h
                      /\ \A k \in 1..Len(ev'.done[1].posts) :
                            ev'.done[1].posts[k].body.content = HandlerReturn(c.h, c.msg)
       /\ (ev'.op = "request" /\ ev'.calls # <<>>) => ev'.calls[1].h = Registered
       /\ ev'.op = "a2aSettle" =>
            \E p \in BagToSet(a2aPending) :
                /\ ev'.calls = <<p.call>>
                /\ ev'.res[1].status = 200 =>
                      ev'.res[1].body.response = HandlerReturn(p.call.h, p.call.msg)
       /\ ev'.op = "setMessageHandler" =>
            cycles' = cycles /\ a2aPending' = a2aPending]_vars

\* in one turn the dispatch that had called h1 finished and the next message of
\* its batch went to h2, registered in between
C15_Witness ==
    /\ Len(ev.done) >= 2
    /\ ev.done[1].h = "h1"
    /\ ev.done[2].h = "h2"
    /\ messageHandler = "h2"

\* "Echo: " followed by the content of message
Echo(message) == <<"Echo: ">> \o message.content

\* the one fetch of a dispatch carries the echo of its message
EchoPosted(message, posts) == Len(posts) = 1 /\ posts[1].body.content = Echo(message)

\* C16: a handler call made while no handler is registered is a call of the
\* default echo and one made while a handler is registered never is; a polled
\* message given to the default echo is answered with one POST carrying
\* "Echo: " + content, and a POST /a2a given to it is answered 200 with that
\* text as response.
C16_DefaultEcho ==
    [][/\ ev'.op \in {"poll", "handler", "post"} =>
            /\ \A i \in 1..Len(ev'.done) :
                  (i > 1 \/ ev'.op = "poll") =>
                      (ev'.done[i].h = DefaultHandler <=> messageHandler = NoHandler)
            /\ \A c2 \in BagToSet(cycles') :
                  NewlyInvoked(c2) =>
                      (c2.h = DefaultHandler <=> messageHandler = NoHandler)
            /\ \A i \in 1..Len(ev'.done) :
                  ev'.done[i].h = DefaultHandler =>
                      EchoPosted(ev'.done[i].msg, ev'.done[i].posts)
            /\ \A c2 \in BagToSet(cycles') :
                  (c2.pc # "get" /\ c2.h = DefaultHandler) =>
                      c2.pc = "post" /\ EchoPosted(c2.msg, c2.posts)
       /\ (ev'.op = "request" /\ ev'.calls # <<>>) =>
            /\ ev'.calls[1].h = DefaultHandler <=> messageHandler = NoHandler
            /\ ev'.calls[1].h = DefaultHandler =>
                  /\ ev'.res # <<>>
                  /\ ev'.res[1].status = 200
                  /\ ev'.res[1].body.response = Echo(ev'.calls[1].msg)]_vars

\* a polled "hi" was answered "Echo: hi" by an agent without a handler
C16_Witness ==
    /\ messageHandler = NoHandler
    /\ \E d \in Finished :
          /\ d.h = DefaultHandler
          /\ d.msg.content = Str("hi")
          /\ d.posts[1].body.content = <<"Echo: ", "hi">>

\* the /a2a case: "hello" was answered "Echo: hello"
C16_A2AEchoReached ==
    /\ IsA2A
    /\ messageHandler = NoHandler
    /\ ev.res # <<>>
    /\ ev.res[1].status = 200
    /\ ev.res[1].body.response = <<"Echo: ", "hello">>

(* ------------------------------------------------------------------ *)
(* Server wrapper and polling side by side (C17, C18)                 *)
(* ------------------------------------------------------------------ *)

\* the turns of the server wrapper: its two API calls, a route answering a
\* request, and the continuation of POST /a2a after its handler's promise
ServerTurns == {"createServerWrapper", "runServer", "request", "a2aSettle"}

\* C17: createServerWrapper, runServer and the handling of an inbound request
\* leave the running flag, the timer handle, the pending timers and the poll
\* cycles in flight as they were: they start no cycle, cancel no timer and
\* hold back no cycle.
C17_ServerLeavesPolling ==
    [][ev'.op \in ServerTurns =>
          UNCHANGED <<running, pollInterval, timers, cycles>>]_vars

\* POST /a2a was answered while a poll cycle was awaiting its handler, on an
\* agent that had called runServer
C17_Witness ==
    /\ IsA2A
    /\ ev.res # <<>>
    /\ ev.res[1].status = 200
    /\ listening
    /\ running
    /\ \E c \in BagToSet(cycles) : c.pc = "handler"

\* C18: in a process where Express could not be loaded, createServerWrapper
\* and runServer throw at the call and change nothing: app and startupTime stay
\* unset, nothing listens, and so no route exists and no request is served.
C18_NoExpressNoServer ==
    /\ [][(~expressAvailable /\ ev'.op \in {"createServerWrapper", "runServer"}) =>
             /\ ev'.noop
             /\ UNCHANGED <<app, startupTime, listening, pollVars, messageHandler,
                            a2aPending>>]_vars
    /\ [](~expressAvailable =>
             /\ app = <<>>
             /\ startupTime = <<>>
             /\ ~listening
             /\ ev.op \notin {"request", "a2aSettle"})

\* runServer was called without Express and threw
C18_Witness ==
    /\ ~expressAvailable
    /\ ev.op = "runServer"
    /\ ev.noop
    /\ app = <<>>
    /\ startupTime = <<>>
    /\ ~listening

(* ------------------------------------------------------------------ *)
(* The interrupt signal (C19)                                         *)
(* ------------------------------------------------------------------ *)

\* C19: once run() has registered its listener, the turn of an interrupt
\* signal leaves the agent stopped (running false and, when the agent was
\* running, the timer of pollInterval no longer pending), starts no poll cycle,
\* and ends the process; nothing happens in an exited process, so no poll
\* cycle starts after the signal.
C19_InterruptStopsThenExits ==
    /\ [][ev'.op = "SIGINT" =>
             /\ ~running'
             /\ running => pollInterval' \notin timers'
             /\ timers' \subseteq timers
             /\ cycles' = cycles
             /\ ~ev'.get
             /\ exited']_vars
    /\ [][exited => UNCHANGED <<cycles, timers, running>>]_vars
    /\ [](exited => ~running /\ ev.op = "SIGINT")

\* the signal arrived while the agent was running with its next poll armed:
\* the timer is gone and the process has exited
C19_Witness ==
    /\ ev.op = "SIGINT"
    /\ exited
    /\ ~running
    /\ pollInterval # NoTimer
    /\ timers = {}
    /\ cycles = EmptyBag

(* ------------------------------------------------------------------ *)
(* Overlap of poll cycles (C20)                                       *)
(* ------------------------------------------------------------------ *)

\* C20 as stated: whatever run(), stop(), timers and completions do, at most
\* one poll cycle is in flight, and a turn starts a cycle only when no other
\* cycle is in flight.
C20_Original ==
    /\ BagCardinality(cycles) <= 1
    /\ ev.get => BagCardinality(cycles) = 1

\* what the code keeps: a single poll loop (a cycle in flight or a pending
\* timer, never both, never two) for as long as stop() is not called
C20_OneLoopWhileNeverStopped ==
    /\ BagCardinality(cycles) <= 1
    /\ ActiveLoops <= 1

(* ------------------------------------------------------------------ *)
(* The stopped agent (C21, C22)                                       *)
(* ------------------------------------------------------------------ *)

\* C21 as stated: whenever the running flag is false no poll timer is pending.
C21_Original == ~running => timers = {}

\* what the code keeps: stop() leaves the timer it knows of cancelled, and a
\* stopped agent with no poll cycle in flight at stop() has no timer pending
C21_StopCancelsKnownTimer ==
    [][(ev'.op = "stop" /\ running) =>
          /\ pollInterval \notin timers'
          /\ cycles = EmptyBag => timers' = timers \ {pollInterval}]_vars

\* c2 is a dispatch this turn started and left suspended
StartedSuspended(c2) ==
    /\ CopiesIn(c2, cycles') > CopiesIn(c2, cycles)
    /\ NewlyInvoked(c2)

\* this turn called the handler for a polled message: for the first message
\* after the GET, or for a later message of a batch
StartsDispatch ==
    /\ ev'.op \in {"poll", "handler", "post"}
    /\ \/ ev'.op = "poll" /\ ev'.done # <<>>
       \/ Len(ev'.done) > 1
       \/ \E c2 \in BagToSet(cycles') : StartedSuspended(c2)

\* C22 as stated: once stop() has returned, no handler call begins for a polled
\* message whose dispatch had not started before: no turn of a stopped agent
\* starts a dispatch.
C22_Original == [][~running => ~StartsDispatch]_vars

(* ------------------------------------------------------------------ *)
(* One poll cycle: order, failures, retry (C23 - C25, C28)            *)
(* ------------------------------------------------------------------ *)

Msgs(ds) == [i \in 1..Len(ds) |-> ds[i].msg]

\* p is the beginning of q
IsPrefix(p, q) == Len(p) <= Len(q) /\ p = SubSeq(q, 1, Len(p))

\* the cycle this turn resumed
Resumed(c) == c \in BagToSet(cycles) /\ CopiesIn(c, cycles') < CopiesIn(c, cycles)

\* the cycle this turn left suspended: <<>> when pollMessages returned
Suspended ==
    IF \E c2 \in BagToSet(cycles') : CopiesIn(c2, cycles') > CopiesIn(c2, cycles)
    THEN <<CHOOSE c2 \in BagToSet(cycles') : CopiesIn(c2, cycles') > CopiesIn(c2, cycles)>>
    ELSE <<>>

Ids(messages) == [i \in 1..Len(messages) |-> messages[i].id]

\* the entries of data.messages as the platform sent them: none unless the
\* response is a 2xx with success true and a data.messages array
Received(resp) ==
    IF resp.net = "ok" /\ resp.ok /\ resp.success /\ resp.data # <<>>
       /\ resp.data[1].messages # <<>>
    THEN resp.data[1].messages[1]
    ELSE <<>>

\* the ids of the messages cycle c still had to see through when this turn
\* began: those of the GET that settled, in the order sent, or that of the
\* message in dispatch and the rest of its batch
QueueOf(c) ==
    IF ev'.op = "poll" THEN Ids(Received(ev'.polled[1])) ELSE Ids(<<c.msg>> \o c.rest)

\* the ids of the messages this turn worked on, in the order it took them up
TakenUp ==
    Ids(Msgs(ev'.done) \o (IF Suspended = <<>> THEN <<>> ELSE <<Suspended[1].msg>>))

\* C23: the messages of a batch are given to the handler one after the other
\* in the order of the poll response; a turn takes up the next message only
\* when the dispatch before it has finished, its delivery fetch settled, and
\* leaves the untouched messages waiting in their order.
C23_SequentialInOrder ==
    [][ev'.op \in {"poll", "handler", "post"} =>
          \E c \in BagToSet(cycles) :
              /\ Resumed(c)
              /\ IsPrefix(TakenUp, QueueOf(c))
              /\ Suspended # <<>> =>
                    Ids(Suspended[1].rest) =
                        SubSeq(QueueOf(c), Len(TakenUp) + 1, Len(QueueOf(c)))
              /\ \A i \in 1..Len(ev'.done) :
                    /\ ev'.done[i].result = "resolved"
                    /\ HandlerSucceeded(ev'.done[i]) => ev'.done[i].fetch \in FetchOutcomes]_vars

\* the reply to id2 was delivered, and only then id1, which came second in the
\* batch, was given to the handler
C23_Witness ==
    /\ ev.op = "post"
    /\ Len(ev.done) = 1
    /\ ev.done[1].msg.id = Str("id2")
    /\ ev.done[1].fetch = "2xx"
    /\ \E c \in BagToSet(cycles) : c.pc = "handler" /\ c.msg.id = Str("id1") /\ c.rest = <<>>

\* the GET failed on the network, came back non-2xx, or came back with a
\* payload whose success is not true or that has no data.messages
FailedPoll(resp) ==
    \/ resp.net = "error"
    \/ ~resp.ok
    \/ ~resp.success
    \/ resp.data = <<>>
    \/ resp.data[1].messages = <<>>

\* C24: a poll cycle whose GET failed, came back non-2xx or came back
\* malformed calls no handler and issues no fetch; pollMessages returns
\* normally, so the poll closure goes on to arm the next timer.
C24_FailedPollDispatchesNothing ==
    (ev.op = "poll" /\ FailedPoll(ev.polled[1])) =>
        /\ ev.done = <<>>
        /\ ev.posts = <<>>
        /\ cycles = EmptyBag
        /\ timers = {pollInterval}

\* the GET came back 200 with messages under success: false, and nothing was
\* dispatched
C24_Witness ==
    /\ ev.op = "poll"
    /\ ev.polled[1].ok
    /\ ~ev.polled[1].success
    /\ ev.polled[1].data # <<>>
    /\ ev.polled[1].data[1].messages # <<>>
    /\ Len(ev.polled[1].data[1].messages[1]) = 1
    /\ ev.done = <<>>
    /\ cycles = EmptyBag
    /\ timers # {}

\* C25: an agent that was started and is never stopped starts a poll cycle
\* again and again, whatever the cycles before came back with, as long as
\* timers fire and every fetch and handler promise settles.
C25_PollingNeverEnds == [](running => []<>ev.get)

\* a timer armed at the end of a cycle fired and started the next cycle
C25_Witness ==
    /\ ev.op = "timer"
    /\ ev.get
    /\ running
    /\ pollInterval # NoTimer
    /\ GetsInFlight = 1

\* C28: a handler that fails or a delivery that fails ends only its own
\* dispatch: pollMessages returns only when every message of the batch was
\* taken up, in order, and every dispatch made one fetch when its handler
\* succeeded and none when it failed, whatever happened to the message before.
C28_FailureDoesNotAbortBatch ==
    [][ev'.op \in {"poll", "handler", "post"} =>
          \E c \in BagToSet(cycles) :
              /\ Resumed(c)
              /\ IF Suspended = <<>>
                 THEN TakenUp = QueueOf(c)
                 ELSE TakenUp \o Ids(Suspended[1].rest) = QueueOf(c)
              /\ \A i \in 1..Len(ev'.done) :
                    Len(ev'.done[i].posts) = (IF HandlerSucceeded(ev'.done[i]) THEN 1 ELSE 0)
              /\ Suspended # <<>> => Len(Suspended[1].posts) <= 1]_vars

\* the delivery of the reply to id1 failed on the network, and id2, next in
\* the batch, was dispatched and its own reply is being delivered
C28_Witness ==
    /\ ev.op = "post"
    /\ Len(ev.done) = 1
    /\ ev.done[1].msg.id = Str("id1")
    /\ ev.done[1].fetch = "neterr"
    /\ \E c \in Posting : c.msg.id = Str("id2") /\ Len(c.posts) = 1

\* the handler threw for id1, and id2 was dispatched all the same
C28_AfterHandlerFailureReached ==
    /\ ev.op = "poll"
    /\ Len(ev.done) = 1
    /\ ev.done[1].msg.id = Str("id1")
    /\ ev.done[1].handler = "throw"
    /\ \E c \in BagToSet(cycles) : c.pc = "handler" /\ c.msg.id = Str("id2")

(* ------------------------------------------------------------------ *)
(* Credentials on the response channels (C26)                         *)
(* ------------------------------------------------------------------ *)

\* the dispatches that made a fetch
Answering == {d \in Finished : d.posts # <<>>}

C27_Original ==
    (ev.op = "request" /\ ev.calls # <<>> /\ ev.res # <<>>) =>
        \A p \in BagToSet(a2aPending) :
            /\ p.call.msg.id # ev.calls[1].msg.id
            /\ p.call.msg.request_id # ev.calls[1].msg.request_id

StatusOf(res) == {res[i].status : i \in 1..Len(res)}

\* the inbound requests that have got no response yet
Unanswered == BagCardinality(a2aPending)

C29_EveryStatusReached(st) == ev.op = "request" /\ StatusOf(ev.res) = {st}

C29_Reached401 == C29_EveryStatusReached(401)

C29_Reached400 == C29_EveryStatusReached(400)

C29_Reached200 == C29_EveryStatusReached(200)

(* ------------------------------------------------------------------ *)
(* Interrupt handlers over the life of the agent (C30)                *)
(* ------------------------------------------------------------------ *)

\* C30, as stated: whatever sequence of run() and stop() was called, the
\* process has at most one interrupt handler of the agent registered.
\* Violated: every run() that finds the agent stopped registers a new
\* handler and stop() removes none, so run, stop, run leaves two.
C30_Original == sigintHandlers <= 1

====
